---------------------------- MODULE Spec2Model ----------------------------
(***************************************************************************)
(* The AuraSense serverless relay handlers.                                *)
(*                                                                         *)
(* The repository holds five handler revisions:                            *)
(*   "index_js"  src/index.js            relay, PATCH, user_display/U/latest*)
(*   "api_a"     src/api/index.js 1-97   relay, PATCH, .../readings/latest *)
(*   "api_b"     src/api/index.js 99-194 relay, POST,  .../readings/latest *)
(*   "part_000"  src/unnamed/part_000    relay, PATCH, .../readings/latest *)
(*   "part_001"  src/unnamed/part_001    raw uploader, POST, no prediction *)
(* One revision is deployed at a time (variant); process.env is read once  *)
(* per deployment (env).  Requests are concurrent invocations of the       *)
(* deployed handler; each suspends only at its awaits.                     *)
(*                                                                         *)
(* The request body is a decoded mapping; hrv, bt and spo2 are copied      *)
(* verbatim into outbound payloads and are read by no branch, so the body  *)
(* is modelled by hr and userId.  Probabilities are written in tenths.     *)
(***************************************************************************)
EXTENDS Integers, Sequences, FiniteSets, TLC

\* Number of concurrent invocations.
NumReq == 2

Requests == 1..NumReq

-----------------------------------------------------------------------------
\* JavaScript values.

Undefined == [t |-> "undefined"]
Null      == [t |-> "null"]
Num(n)    == [t |-> "number", v |-> n]
Str(s)    == [t |-> "string", v |-> s]
Obj(f)    == [t |-> "object", v |-> f]

\* A faulty truthiness test: only undefined and null are falsy (0 and "" pass).
TruthyPresentOnly(x) == x.t \notin {"undefined", "null"}

\* JavaScript truthiness, as used by !hr, !userId, data.stress_level, ||, if.
Truthy(x) ==
    CASE x.t = "undefined" -> FALSE
      [] x.t = "null"      -> FALSE
      [] x.t = "number"    -> x.v # 0
      [] x.t = "string"    -> x.v # ""
      [] OTHER             -> TRUE

\* a || b
OrElse(a, b) == IF Truthy(a) THEN a ELSE b

\* Template-literal interpolation `${x}`.
Interpolate(x) == IF x.t = "string" THEN x.v ELSE x.t

-----------------------------------------------------------------------------
\* Deployments.

Variants == {"index_js", "api_a", "api_b", "part_000", "part_001"}

\* The revisions that call the prediction service.
RelayVariants == {"index_js", "api_a", "api_b", "part_000"}

\* The HTTP verb of the document-store call.
WriteVerb(v) == IF v \in {"api_b", "part_001"} THEN "POST" ELSE "PATCH"

\* docPath below the project's documents root.
DocPath(v, userId) ==
    IF v = "index_js"
    THEN <<"user_display", Interpolate(userId), "latest">>
    ELSE <<"user_display", Interpolate(userId), "readings", "latest">>

\* process.env: which of the two store credentials are set.
Envs == [projectId : BOOLEAN, apiKey : BOOLEAN]

\* The document URL names this project's store with a usable key.
CredentialsSet(e) == e.projectId /\ e.apiKey

-----------------------------------------------------------------------------
\* Inputs.

Methods == {"POST", "GET"}
HrValues == {Undefined, Num(0), Num(72)}
UserIdValues == {Undefined, Str(""), Str("u1"), Str("u2")}
\* Request bodies: complete ones for two users, ones lacking exactly one of the
\* two fields (absent or falsy), and the empty body.
Bodies ==
    {[hr |-> h, userId |-> Str("u1")] : h \in HrValues}
    \cup {[hr |-> Num(72), userId |-> u] : u \in UserIdValues}
    \cup {[hr |-> Undefined, userId |-> Undefined]}
HttpRequests == [method : Methods, body : Bodies]

NoReq == [method |-> "none"]

\* Every user id a document path can be built from.
PathUsers == (UserIdValues \ {Undefined}) \cup {Str("user1")}
DocPaths(v) == {DocPath(v, u) : u \in PathUsers}

\* Prediction-service outcomes: a transport failure, or a 2xx with data.
ProbsFull  == Obj([l \in {"calm", "stressed"} |-> IF l = "calm" THEN Num(9) ELSE Num(1)])
PredDatas ==
    { [present |-> FALSE, stress_level |-> Undefined,       probabilities |-> Undefined],
      [present |-> TRUE,  stress_level |-> Undefined,       probabilities |-> ProbsFull],
      [present |-> TRUE,  stress_level |-> Str(""),         probabilities |-> Undefined],
      [present |-> TRUE,  stress_level |-> Str("calm"),     probabilities |-> ProbsFull],
      [present |-> TRUE,  stress_level |-> Str("stressed"), probabilities |-> Undefined] }
PredOutcomes == {[ok |-> FALSE]} \cup {[ok |-> TRUE, data |-> d] : d \in PredDatas}
NoOutcome == [ok |-> FALSE, pending |-> TRUE]

-----------------------------------------------------------------------------
\* HTTP response object.

NoResponse == [sent |-> 0, status |-> 0, headers |-> {}, body |-> Undefined]

\* res.setHeader(name, value)
SetHeader(res, name, value) == [res EXCEPT !.headers = @ \cup {<<name, value>>}]

\* res.status(code).send(body) / .json(body)
Send(res, code, body) == [res EXCEPT !.sent = @ + 1, !.status = code, !.body = body]

\* Response bodies.
ErrorBody(msg)      == [kind |-> "error", error |-> msg]
TextBody(msg)       == [kind |-> "text", text |-> msg]
SuccessBody(p)      == [kind |-> "success", success |-> TRUE, prediction |-> p]
UploadedBody        == [kind |-> "uploaded", success |-> TRUE, message |-> "Data uploaded"]
MessageBody(msg)    == [kind |-> "message", message |-> msg]

\* The wording of the two prediction-stage errors differs in api_a.
BadResponseText(v) == IF v = "api_a" THEN "Bad API response" ELSE "Internal - Bad API Response"
CallFailedText(v)  == IF v = "api_a" THEN "API call failed" ELSE "Internal - API Call Failed"

-----------------------------------------------------------------------------
\* Document-store field maps.

NoFields == [kind |-> "none"]
NoDoc    == [kind |-> "missing"]

\* A faulty field map: the probabilities map is never attached.
WriteFieldsNoProbabilities(data, ts) ==
    [ stress_level |-> [stringValue |-> data.stress_level],
      hr           |-> [doubleValue |-> data.hr],
      timestamp    |-> [timestampValue |-> ts] ]

\* writeToFirestore: the typed field map sent to the store.
WriteFields(data, ts) ==
    IF Truthy(data.probabilities)
    THEN [ stress_level  |-> [stringValue |-> data.stress_level],
           hr            |-> [doubleValue |-> data.hr],
           timestamp     |-> [timestampValue |-> ts],
           probabilities |-> [mapValue |-> [fields |->
               [key \in DOMAIN data.probabilities.v |->
                   [doubleValue |-> data.probabilities.v[key]]]]] ]
    ELSE [ stress_level |-> [stringValue |-> data.stress_level],
           hr           |-> [doubleValue |-> data.hr],
           timestamp    |-> [timestampValue |-> ts] ]

\* part_001: the raw-reading field map (spo2 and hrv are not in the modelled body).
UploadFields(body, ts) ==
    [ hr        |-> [doubleValue |-> body.hr],
      spo2      |-> [doubleValue |-> Undefined],
      hrv       |-> [doubleValue |-> Undefined],
      timestamp |-> [timestampValue |-> ts] ]

\* The store's answer to a write.  PATCH without an updateMask creates or
\* replaces the document; POST creates and never replaces an existing one.
StoreAccepts(verb, doc) == verb = "PATCH" \/ doc = NoDoc

\* A faulty overwrite: fields the new map lacks survive from the old document
\* (what an updateMask naming only the sent fields would do).
StoredAfterMerge(doc, f) ==
    IF doc = NoDoc
    THEN f
    ELSE [k \in DOMAIN doc \cup DOMAIN f |-> IF k \in DOMAIN f THEN f[k] ELSE doc[k]]

\* The document after an accepted write: the sent field map, whole.
StoredAfter(doc, f) == f

\* new Date(): the reading of the wall clock after the reading c.  Readings
\* are taken to be distinct, each later than the one before.
ClockReadings(c) == {c + 1}

-----------------------------------------------------------------------------
\* State.

VARIABLES
    variant,      \* the deployed handler revision
    env,          \* process.env of the deployment
    pc,           \* per invocation: "idle", "predict", "write", "written", "done"
    req,          \* per invocation: the HTTP request
    apiResponse,  \* per invocation: the outcome of the prediction call
    target,       \* per invocation: docPath of its write
    fields,       \* per invocation: the field map of its write
    writeOutcome, \* per invocation: "none", "applied", "refused" or "unavailable"
    res,          \* per invocation: the HTTP response object
    trace,        \* per invocation: its outbound calls, returns and response, in order
    store,        \* the document store: docPath -> document
    lastWriter,   \* per docPath: the invocation whose write was applied last (0: none)
    clock         \* the wall clock read by new Date()

vars == <<variant, env, pc, req, apiResponse, target, fields, writeOutcome, res,
          trace, store, lastWriter, clock>>

Init ==
    /\ variant \in Variants
    /\ env \in Envs
    /\ pc = [r \in Requests |-> "idle"]
    /\ req = [r \in Requests |-> NoReq]
    /\ apiResponse = [r \in Requests |-> NoOutcome]
    /\ target = [r \in Requests |-> <<>>]
    /\ fields = [r \in Requests |-> NoFields]
    /\ writeOutcome = [r \in Requests |-> "none"]
    /\ res = [r \in Requests |-> NoResponse]
    /\ trace = [r \in Requests |-> <<>>]
    /\ store = [p \in DocPaths(variant) |-> NoDoc]
    /\ lastWriter = [p \in DocPaths(variant) |-> 0]
    /\ clock = 0

\* The handler returns after sending its response.
Respond(r, response) ==
    /\ res' = [res EXCEPT ![r] = response]
    /\ trace' = [trace EXCEPT ![r] = Append(@, "respond")]
    /\ pc' = [pc EXCEPT ![r] = "done"]

-----------------------------------------------------------------------------
\* Relay handlers (index_js, api_a, api_b, part_000).

\* if (req.method !== 'POST')
MethodRejected(method) == method # "POST"

\* if (!hr || !userId)
MissingRequired(body) == ~Truthy(body.hr) \/ ~Truthy(body.userId)

\* Faulty test of the prediction response: any 2xx body counts.
AnyDataUsable(o) == o.ok /\ o.data.present

\* if (apiResponse.data && apiResponse.data.stress_level), after a call that
\* did not throw.
PredictionUsable(o) == o.ok /\ o.data.present /\ Truthy(o.data.stress_level)

\* Faulty catch of writeToFirestore: the store's error is rethrown.
WriteRethrows(ok) == ~ok

\* writeToFirestore's try/catch: an error of the store call is logged, never thrown.
WriteThrows(ok) == FALSE

\* The handler up to its first await.
RelayStart(r, q) ==
    /\ req' = [req EXCEPT ![r] = q]
    /\ IF MethodRejected(q.method)
       THEN /\ Respond(r, Send(SetHeader(res[r], "Allow", <<"POST">>), 405,
                               TextBody("Method Not Allowed")))
            /\ UNCHANGED <<apiResponse, target, fields, writeOutcome, store, lastWriter, clock>>
       ELSE IF MissingRequired(q.body)
       THEN /\ Respond(r, Send(res[r], 400,
                               ErrorBody("Missing required fields: hr, userId")))
            /\ UNCHANGED <<apiResponse, target, fields, writeOutcome, store, lastWriter, clock>>
       ELSE /\ pc' = [pc EXCEPT ![r] = "predict"]
            /\ trace' = [trace EXCEPT ![r] = Append(@, "predict_call")]
            /\ UNCHANGED <<apiResponse, target, fields, writeOutcome, res, store, lastWriter, clock>>

\* Faulty continuation: a failed prediction call is issued again.
RelayOnPredictionRetrying(r, o) ==
    /\ apiResponse' = [apiResponse EXCEPT ![r] = o]
    /\ UNCHANGED req
    /\ IF ~o.ok
       THEN /\ trace' = [trace EXCEPT ![r] = Append(Append(@, "predict_return"), "predict_call")]
            /\ UNCHANGED <<pc, target, fields, writeOutcome, res, store, lastWriter, clock>>
       ELSE IF PredictionUsable(o)
       THEN /\ \E now \in ClockReadings(clock) :
                 /\ clock' = now
                 /\ target' = [target EXCEPT ![r] = DocPath(variant, req[r].body.userId)]
                 /\ fields' = [fields EXCEPT ![r] =
                        WriteFields([stress_level |-> o.data.stress_level,
                                     probabilities |-> OrElse(o.data.probabilities, Null),
                                     hr |-> req[r].body.hr], now)]
            /\ trace' = [trace EXCEPT ![r] = Append(Append(@, "predict_return"), "write_call")]
            /\ pc' = [pc EXCEPT ![r] = "write"]
            /\ UNCHANGED <<writeOutcome, res, store, lastWriter>>
       ELSE /\ res' = [res EXCEPT ![r] = Send(@, 500, ErrorBody(BadResponseText(variant)))]
            /\ trace' = [trace EXCEPT ![r] = Append(Append(@, "predict_return"), "respond")]
            /\ pc' = [pc EXCEPT ![r] = "done"]
            /\ UNCHANGED <<target, fields, writeOutcome, store, lastWriter, clock>>

\* The handler from the prediction call's return to its next await or response.
RelayOnPrediction(r, o) ==
    /\ apiResponse' = [apiResponse EXCEPT ![r] = o]
    /\ UNCHANGED req
    /\ IF ~o.ok
       THEN /\ res' = [res EXCEPT ![r] = Send(@, 500, ErrorBody(CallFailedText(variant)))]
            /\ trace' = [trace EXCEPT ![r] = Append(Append(@, "predict_return"), "respond")]
            /\ pc' = [pc EXCEPT ![r] = "done"]
            /\ UNCHANGED <<target, fields, writeOutcome, store, lastWriter, clock>>
       ELSE IF PredictionUsable(o)
       THEN /\ \E now \in ClockReadings(clock) :
                 /\ clock' = now
                 /\ target' = [target EXCEPT ![r] = DocPath(variant, req[r].body.userId)]
                 /\ fields' = [fields EXCEPT ![r] =
                        WriteFields([stress_level |-> o.data.stress_level,
                                     probabilities |-> OrElse(o.data.probabilities, Null),
                                     hr |-> req[r].body.hr], now)]
            /\ trace' = [trace EXCEPT ![r] = Append(Append(@, "predict_return"), "write_call")]
            /\ pc' = [pc EXCEPT ![r] = "write"]
            /\ UNCHANGED <<writeOutcome, res, store, lastWriter>>
       ELSE /\ res' = [res EXCEPT ![r] = Send(@, 500, ErrorBody(BadResponseText(variant)))]
            /\ trace' = [trace EXCEPT ![r] = Append(Append(@, "predict_return"), "respond")]
            /\ pc' = [pc EXCEPT ![r] = "done"]
            /\ UNCHANGED <<target, fields, writeOutcome, store, lastWriter, clock>>

\* The handler from the store call's return to its response.
RelayOnWrite(r) ==
    /\ IF WriteThrows(writeOutcome[r] = "applied")
       THEN res' = [res EXCEPT ![r] = Send(@, 500, ErrorBody(CallFailedText(variant)))]
       ELSE res' = [res EXCEPT ![r] =
                Send(@, 200, SuccessBody(apiResponse[r].data.stress_level))]
    /\ trace' = [trace EXCEPT ![r] = Append(Append(@, "write_return"), "respond")]
    /\ pc' = [pc EXCEPT ![r] = "done"]
    /\ UNCHANGED <<req, apiResponse, target, fields, writeOutcome, store, lastWriter, clock>>

-----------------------------------------------------------------------------
\* Raw uploader (part_001).

\* const { hr, spo2, hrv, userId = "user1" } = req.body: the default applies
\* to an undefined property only.
UploadUserId(body) == IF body.userId = Undefined THEN Str("user1") ELSE body.userId

\* The handler up to its await of the store call.
UploadStart(r, q) ==
    /\ req' = [req EXCEPT ![r] = q]
    /\ IF MethodRejected(q.method)
       THEN /\ Respond(r, Send(res[r], 405, MessageBody("Method Not Allowed")))
            /\ UNCHANGED <<apiResponse, target, fields, writeOutcome, store, lastWriter, clock>>
       ELSE IF ~env.projectId \/ ~env.apiKey
       THEN /\ Respond(r, Send(res[r], 500, ErrorBody("Firebase credentials missing")))
            /\ UNCHANGED <<apiResponse, target, fields, writeOutcome, store, lastWriter, clock>>
       ELSE /\ \E now \in ClockReadings(clock) :
                 /\ clock' = now
                 /\ target' = [target EXCEPT ![r] = DocPath(variant, UploadUserId(q.body))]
                 /\ fields' = [fields EXCEPT ![r] = UploadFields(q.body, now)]
            /\ trace' = [trace EXCEPT ![r] = Append(@, "write_call")]
            /\ pc' = [pc EXCEPT ![r] = "write"]
            /\ UNCHANGED <<apiResponse, writeOutcome, res, store, lastWriter>>

\* Faulty continuation: the catch block logs and sends nothing.
UploadOnWriteSilentCatch(r) ==
    /\ IF writeOutcome[r] = "applied"
       THEN res' = [res EXCEPT ![r] = Send(@, 200, UploadedBody)]
       ELSE UNCHANGED res
    /\ trace' = [trace EXCEPT ![r] = Append(@, "write_return")]
    /\ pc' = [pc EXCEPT ![r] = "done"]
    /\ UNCHANGED <<req, apiResponse, target, fields, writeOutcome, store, lastWriter, clock>>

\* The handler from the store call's return to its response.
UploadOnWrite(r) ==
    /\ IF writeOutcome[r] = "applied"
       THEN res' = [res EXCEPT ![r] = Send(@, 200, UploadedBody)]
       ELSE res' = [res EXCEPT ![r] = Send(@, 500, ErrorBody("Failed to upload data"))]
    /\ trace' = [trace EXCEPT ![r] = Append(Append(@, "write_return"), "respond")]
    /\ pc' = [pc EXCEPT ![r] = "done"]
    /\ UNCHANGED <<req, apiResponse, target, fields, writeOutcome, store, lastWriter, clock>>

-----------------------------------------------------------------------------
\* Steps.

\* A request arrives and the handler runs to its first await or its response.
\* Invocation slots are taken in order.
Receive(r) ==
    /\ pc[r] = "idle"
    /\ \A k \in 1..(r - 1) : pc[k] # "idle"
    /\ \E q \in HttpRequests :
          IF variant \in RelayVariants THEN RelayStart(r, q) ELSE UploadStart(r, q)
    /\ UNCHANGED <<variant, env>>

\* The prediction call returns or throws.
PredictionReturns(r) ==
    /\ pc[r] = "predict"
    /\ \E o \in PredOutcomes : RelayOnPrediction(r, o)
    /\ UNCHANGED <<variant, env>>

\* The document store answers the write: it applies it, refuses it because of
\* the document's state, or the call fails (transport, authorisation).  A URL
\* built from unset credentials does not reach this project's store.
StoreAnswers(r) ==
    /\ pc[r] = "write"
    /\ \E outcome \in {"applied", "refused", "unavailable"} :
          /\ outcome = "applied" =>
                CredentialsSet(env) /\ StoreAccepts(WriteVerb(variant), store[target[r]])
          /\ outcome = "refused" =>
                CredentialsSet(env) /\ ~StoreAccepts(WriteVerb(variant), store[target[r]])
          /\ writeOutcome' = [writeOutcome EXCEPT ![r] = outcome]
          /\ IF outcome = "applied"
             THEN /\ store' = [store EXCEPT ![target[r]] = StoredAfter(@, fields[r])]
                  /\ lastWriter' = [lastWriter EXCEPT ![target[r]] = r]
             ELSE UNCHANGED <<store, lastWriter>>
    /\ pc' = [pc EXCEPT ![r] = "written"]
    /\ UNCHANGED <<variant, env, req, apiResponse, target, fields, res, trace, clock>>

\* The awaited store call settles and the handler resumes.
WriteReturns(r) ==
    /\ pc[r] = "written"
    /\ IF variant \in RelayVariants THEN RelayOnWrite(r) ELSE UploadOnWrite(r)
    /\ UNCHANGED <<variant, env>>

Next ==
    \E r \in Requests :
        \/ Receive(r)
        \/ PredictionReturns(r)
        \/ StoreAnswers(r)
        \/ WriteReturns(r)

Spec == Init /\ [][Next]_vars

\* Every outbound call eventually returns or fails, and a settled await resumes.
FairSpec ==
    /\ Spec
    /\ \A r \in Requests :
          /\ WF_vars(PredictionReturns(r))
          /\ WF_vars(StoreAnswers(r))
          /\ WF_vars(WriteReturns(r))

-----------------------------------------------------------------------------
\* Vocabulary of the properties.  These are stated on the request, the
\* response and the trace, independently of the handlers' own tests.

Count(r, ev) == Len(SelectSeq(trace[r], LAMBDA e : e = ev))
OutboundCalls(r) == Count(r, "predict_call") + Count(r, "write_call")
Received(r) == pc[r] # "idle"
IsPost(r) == req[r].method = "POST"

\* hr or userId absent or falsy: undefined, 0 or "".
FieldAbsent(x) == x \in {Undefined, Null, Num(0), Str("")}
BodyIncomplete(r) == FieldAbsent(req[r].body.hr) \/ FieldAbsent(req[r].body.userId)
ValidPost(r) == Received(r) /\ IsPost(r) /\ ~BodyIncomplete(r)

\* The prediction call returned a response carrying a non-empty stress_level.
HasStressLevel(o) ==
    /\ o.ok
    /\ o.data.present
    /\ o.data.stress_level \in {Str("calm"), Str("stressed")}
PredictionReturned(r) == Count(r, "predict_return") > 0

Rejected400(r) ==
    /\ pc[r] = "done"
    /\ res[r].status = 400
    /\ OutboundCalls(r) = 0

-----------------------------------------------------------------------------
\* C1 (as stated): in every handler variant, a POST whose body lacks hr or
\* userId (absent or falsy) is answered 400 and issues no outbound call.
C1_MissingFieldRejectedEverywhere ==
    \A r \in Requests :
        (Received(r) /\ IsPost(r) /\ BodyIncomplete(r)) => Rejected400(r)

\* C1 (amended): in the four relay variants such a POST is answered 400 with no
\* outbound call; the raw uploader part_001 has no presence check: it never
\* answers 400 and, with both credentials set, issues the document write for
\* such a body, under user "user1" when userId is undefined.
C1_MissingFieldRejectedByRelay ==
    \A r \in Requests :
        (Received(r) /\ IsPost(r) /\ BodyIncomplete(r)) =>
            IF variant \in RelayVariants
            THEN Rejected400(r)
            ELSE /\ res[r].status # 400
                 /\ CredentialsSet(env) =>
                       /\ Count(r, "write_call") = 1
                       /\ req[r].body.userId = Undefined =>
                             target[r] = DocPath(variant, Str("user1"))

\* A relay variant has rejected a POST with hr = 0 and a user id.
C1_Witness ==
    \E r \in Requests :
        /\ variant \in RelayVariants
        /\ Received(r) /\ IsPost(r)
        /\ req[r].body.hr = Num(0)
        /\ req[r].body.userId = Str("u1")
        /\ Rejected400(r)

\* C2: in every handler variant a non-POST request is answered 405 with the
\* header Allow: POST, whatever its body, and issues no outbound call.
C2_NonPostGets405WithAllow ==
    \A r \in Requests :
        (Received(r) /\ ~IsPost(r)) =>
            /\ pc[r] = "done"
            /\ res[r].status = 405
            /\ <<"Allow", <<"POST">>>> \in res[r].headers
            /\ OutboundCalls(r) = 0

\* C3: with the project id or the API key unset, every valid POST is answered
\* 500 and no outbound call is attempted.
C3_MissingCredentialsFailFast ==
    \A r \in Requests :
        (ValidPost(r) /\ ~CredentialsSet(env)) =>
            /\ pc[r] = "done"
            /\ res[r].status = 500
            /\ OutboundCalls(r) = 0

C5_WriteOnlyAfterPredictionEverywhere ==
    \A r \in Requests :
        Count(r, "write_call") > 0 => HasStressLevel(apiResponse[r])

\* C5 (amended): in the four relay variants a write is issued only after the
\* request's own prediction call returned a non-empty stress_level, and a
\* prediction call that fails or returns no such stress_level is answered 500
\* with no write issued; the raw uploader part_001 calls no prediction service
\* and issues its write without one.
C5_WriteOnlyAfterPredictionInRelay ==
    \A r \in Requests :
        IF variant \in RelayVariants
        THEN /\ Count(r, "write_call") > 0 => HasStressLevel(apiResponse[r])
             /\ (PredictionReturned(r) /\ ~HasStressLevel(apiResponse[r])) =>
                   /\ pc[r] = "done"
                   /\ res[r].status = 500
                   /\ Count(r, "write_call") = 0
                   /\ writeOutcome[r] = "none"
        ELSE /\ Count(r, "predict_call") = 0
             /\ apiResponse[r] = NoOutcome

\* A relay request whose prediction response lacks stress_level was answered.
C5_Witness ==
    \E r \in Requests :
        /\ variant \in RelayVariants
        /\ PredictionReturned(r)
        /\ apiResponse[r].ok
        /\ apiResponse[r].data.present
        /\ apiResponse[r].data.stress_level = Undefined
        /\ res[r].status = 500

\* C6: for every valid POST and every prediction response with a stress_level,
\* the handler answers 200 {success: true, prediction: stress_level} and issues
\* exactly one document write, whose field map has stress_level = the
\* prediction, hr = the request's hr, a timestamp read from the server clock,
\* and a probabilities map with exactly the response's labels and values; with
\* no probabilities in the response the field map has no probabilities field.
C6_SuccessWritesPredictionOnce ==
    \A r \in Requests :
        (ValidPost(r) /\ HasStressLevel(apiResponse[r])) =>
            LET f == fields[r]
                d == apiResponse[r].data
            IN  /\ Count(r, "write_call") = 1
                /\ f # NoFields
                /\ f.stress_level = [stringValue |-> d.stress_level]
                /\ f.hr = [doubleValue |-> req[r].body.hr]
                /\ f.timestamp.timestampValue \in 1..clock
                /\ IF d.probabilities.t = "object"
                   THEN /\ DOMAIN f = {"stress_level", "hr", "timestamp", "probabilities"}
                        /\ DOMAIN f.probabilities.mapValue.fields = DOMAIN d.probabilities.v
                        /\ \A k \in DOMAIN d.probabilities.v :
                              /\ d.probabilities.v[k].t = "number"
                              /\ f.probabilities.mapValue.fields[k] =
                                    [doubleValue |-> d.probabilities.v[k]]
                   ELSE DOMAIN f = {"stress_level", "hr", "timestamp"}
                /\ pc[r] = "done" =>
                      /\ res[r].status = 200
                      /\ res[r].body = SuccessBody(d.stress_level)

\* The spec's example: hr 72, user u1, calm with both probabilities, answered 200.
C6_Witness ==
    \E r \in Requests :
        /\ pc[r] = "done"
        /\ req[r].body = [hr |-> Num(72), userId |-> Str("u1")]
        /\ apiResponse[r].ok
        /\ apiResponse[r].data.stress_level = Str("calm")
        /\ apiResponse[r].data.probabilities = ProbsFull
        /\ res[r].status = 200
        /\ "probabilities" \in DOMAIN fields[r]

\* C7: the latest document is overwritten on every call, so repeating a request
\* is harmless: in the relay variants, whenever the store answers a request's
\* write (the store being reachable), the document at the request's path
\* holds that request's field map.
C7_EveryCallOverwritesLatest ==
    [][\A r \in Requests :
          ( /\ variant \in RelayVariants
            /\ pc[r] = "write" /\ pc'[r] = "written"
            /\ writeOutcome'[r] # "unavailable" )
              => store'[target[r]] = fields[r]]_vars

\* C8: in every interleaving of concurrent relay requests, each document is, as
\* a whole, the field map of the request whose write was applied to it last
\* (never a mixture); a document is only ever written by requests of its own
\* user; and a request whose prediction succeeded is answered 200 whatever the
\* other requests do.
C8_LastWriterWins ==
    /\ \A p \in DOMAIN store :
          IF lastWriter[p] = 0
          THEN store[p] = NoDoc
          ELSE /\ store[p] = fields[lastWriter[p]]
               /\ target[lastWriter[p]] = p
               /\ writeOutcome[lastWriter[p]] = "applied"
    /\ variant \in RelayVariants =>
          /\ \A u \in PathUsers :
                store[DocPath(variant, u)] # NoDoc =>
                    req[lastWriter[DocPath(variant, u)]].body.userId = u
          /\ \A r \in Requests :
                (pc[r] = "done" /\ HasStressLevel(apiResponse[r])) => res[r].status = 200

\* Two requests of user u1 raced: request 1 built its field map first, request
\* 2's write was applied first, request 1's last; both were answered 200.
C8_Witness ==
    /\ variant \in RelayVariants
    /\ NumReq >= 2
    /\ pc[1] = "done" /\ pc[2] = "done"
    /\ req[1].body.userId = Str("u1") /\ req[2].body.userId = Str("u1")
    /\ writeOutcome[1] = "applied" /\ writeOutcome[2] = "applied"
    /\ res[1].status = 200 /\ res[2].status = 200
    /\ fields[1].timestamp.timestampValue < fields[2].timestamp.timestampValue
    /\ "probabilities" \in DOMAIN fields[2]
    /\ "probabilities" \notin DOMAIN fields[1]
    /\ lastWriter[target[1]] = 1
    /\ store[target[1]] = fields[1]

\* The complete runs of a relay request.
RunRejected == <<"respond">>
RunPredictionFailed == <<"predict_call", "predict_return", "respond">>
RunWritten == <<"predict_call", "predict_return", "write_call", "write_return", "respond">>

\* Every prefix of a complete run.
RunPrefixes ==
    UNION { {SubSeq(run, 1, n) : n \in 0..Len(run)} :
            run \in {RunRejected, RunPredictionFailed, RunWritten} }

\* C9: a relay request goes validation -> prediction call -> document write ->
\* response, without retry or loop: at most one prediction call and one write,
\* the write issued only after the prediction returned, and a 200 sent only
\* after the write attempt completed.
C9_LinearStages ==
    variant \in RelayVariants =>
        \A r \in Requests :
            /\ trace[r] \in RunPrefixes
            /\ ValidPost(r) => trace[r][1] = "predict_call"
            /\ (Received(r) /\ ~ValidPost(r)) => trace[r] = RunRejected
            /\ pc[r] = "done" <=> (trace[r] # <<>> /\ trace[r][Len(trace[r])] = "respond")
            /\ res[r].status = 200 => trace[r] = RunWritten
            /\ writeOutcome[r] # "none" => Count(r, "write_call") = 1

\* A relay request has gone through all the stages.
C9_Witness ==
    \E r \in Requests :
        /\ variant \in RelayVariants
        /\ trace[r] = RunWritten
        /\ res[r].status = 200

\* C10: provided each outbound call eventually returns or fails, every received
\* request is eventually answered; a response is sent exactly once, when the
\* handler finishes, and its status is 200, 400, 405 or 500.
C10_ExactlyOneResponse ==
    /\ \A r \in Requests : Received(r) ~> (pc[r] = "done")
    /\ [](\A r \in Requests :
            /\ res[r].sent = IF pc[r] = "done" THEN 1 ELSE 0
            /\ Count(r, "respond") = res[r].sent
            /\ pc[r] = "done" => res[r].status \in {200, 400, 405, 500})

\* Requests have been answered after a store failure and after a prediction
\* transport failure.
C10_Witness ==
    \E r, q \in Requests :
        /\ pc[r] = "done" /\ writeOutcome[r] \in {"refused", "unavailable"}
        /\ pc[q] = "done" /\ PredictionReturned(q) /\ ~apiResponse[q].ok
        /\ res[q].status = 500

=============================================================================
